---- MODULE Spec2Model ----
(***************************************************************************)
(* Walkability optimizer: distance lookup (ShortestPathCalculator),        *)
(* WalkScore evaluation (WalkScoreCalculator) and the greedy allocator     *)
(* (GreedyOptimizer.optimize).                                             *)
(*                                                                         *)
(* Numbers.  The program computes in floats; the model computes the same   *)
(* quantities exactly in fixed point:                                      *)
(*   - distances are whole metres;                                         *)
(*   - every weight is held in units of 1/WeightDen;                       *)
(*   - a weighted distance is held in units of 1/(WeightDen*WeightDen) m;  *)
(*   - a WalkScore is held in units of 1/ScoreDen point;                   *)
(*   - an average / a delta is the pair <<numerator, denominator>>.        *)
(***************************************************************************)
EXTENDS Integers, Sequences, FiniteSets, TLC

VARIABLES
    \* ---- the pedestrian network compute_all_distances reads
    graph_G,                        \* graph.G: [nodes, length {edge: metres}], undirected
    \* ---- inputs: the dataset and the configuration (fixed during a run)
    distance_matrix,                \* ShortestPathCalculator.distance_matrix {(i, j): metres}
    L,                              \* graph.L  {amenity_type: set of node ids}
    residential_buildings,          \* graph.residential_buildings: set of <<building id, snapped node>>
    capacity_db,                    \* candidate_locations.capacity per node (0 stands for NULL / 0)
    M_enum,                         \* order in which Python enumerates the candidate set
    k,                              \* optimize(k, ...)
    amenity_types,                  \* optimize(..., amenity_types): list of type names
    fast_mode_residential_sample,   \* config value, 0 stands for None
    fast_mode_candidate_sample,     \* config value, 0 stands for None
    plain_weights,                  \* scorer.plain_weights {type: weight}
    depth_weights,                  \* scorer.depth_weights {type: {rank: weight}}
    type_weight_db,                 \* amenity_types.weight per type (0 stands for NULL)
    breakpoints,                    \* scorer.breakpoints
    scores,                         \* scorer.scores
    \* ---- the graph's node sets (optimize replaces them when sampling)
    graph_N,
    graph_M,
    \* ---- GreedyOptimizer state and the locals of optimize
    pc,
    original_N,
    original_M,
    nearby_residentials,
    S,
    n_allocated,
    candidate_capacities,
    all_candidates,
    walkscore_cache,
    current_S_cache,
    best_pair,
    best_increase,
    iteration,
    commits,                        \* the "Allocated ... Improvement ..." records, in order
    \* ---- a previous run on the same inputs (two-run specification only)
    first_run,
    \* ---- the evaluator's last two queries (scorer specification only)
    query,
    \* ---- demo recording
    record_demo,                    \* optimize(..., record_demo)
    recorder,                       \* the DemoRecorder of the call, <<>> stands for None
    \* ---- database tables
    shortest_paths_db,              \* shortest_paths {(from_node_id, to_node_id): distance_meters}
    walkability_scores,             \* walkability_scores rows, per residential node
    optimization_iterations,        \* optimization_iterations rows, in insertion order
    optimization_recordings,        \* optimization_recordings rows, per scenario
    \* ---- _compute_parallel in flight
    parallel                        \* <<>> or [chunks, futures]

inputs == <<graph_G, distance_matrix, L, residential_buildings, capacity_db, M_enum, k,
            amenity_types, fast_mode_residential_sample, fast_mode_candidate_sample,
            plain_weights, depth_weights, type_weight_db, breakpoints, scores>>

graph == <<graph_N, graph_M>>

optimizer == <<pc, original_N, original_M, nearby_residentials, S, n_allocated,
               candidate_capacities, all_candidates, walkscore_cache, current_S_cache,
               best_pair, best_increase, iteration, commits>>

recording == <<record_demo, recorder>>

database == <<shortest_paths_db, walkability_scores, optimization_iterations,
              optimization_recordings>>

vars == <<inputs, graph, optimizer, first_run, query, recording, database, parallel>>

-----------------------------------------------------------------------------
(* Bounds of the model *)

MaxK == 2
MaxCap == 2
MaxWorkers == 3

(* Program constants *)

D_infinity == 2400
max_relevant_distance == 3000
default_depth_category_weight == 6
batch_size == 500

(* Fixed-point denominators *)

WeightDen == 10
ScoreDen == 14

(* The universe of node ids and type names the inputs are drawn from *)

ResidentNodes == {1, 2}
CandidateNodes == {3, 4}
AmenityNodes == {5, 6}
TypeNames == {"grocery", "restaurant"}

-----------------------------------------------------------------------------
(* Helpers *)

RECURSIVE SetSum(_, _)
SetSum(f, D) ==
    IF D = {} THEN 0
    ELSE LET x == CHOOSE y \in D : TRUE
         IN  f[x] + SetSum(f, D \ {x})

Min2(a, b) == IF a <= b THEN a ELSE b
Max2(a, b) == IF a >= b THEN a ELSE b

RECURSIVE SeqOfSet(_, _)
SeqOfSet(order, keep) ==
    IF order = <<>> THEN <<>>
    ELSE IF Head(order) \in keep
         THEN <<Head(order)>> \o SeqOfSet(Tail(order), keep)
         ELSE SeqOfSet(Tail(order), keep)

Orderings(D) ==
    {s \in [1..Cardinality(D) -> D] : \A x \in D : \E i \in DOMAIN s : s[i] = x}

Range(s) == {s[i] : i \in DOMAIN s}

(* float('-inf') and float comparison on <<numerator, denominator>> pairs *)
NegInf == <<-1, 0>>
Greater(a, b) ==
    IF b[2] = 0 THEN a[2] # 0
    ELSE a[2] # 0 /\ a[1] * b[2] > b[1] * a[2]
RatEq(a, b) == a[1] * b[2] = b[1] * a[2]
RatGeq(a, b) == a[1] * b[2] >= b[1] * a[2]
RatSub(a, b) == <<a[1] * b[2] - b[1] * a[2], a[2] * b[2]>>

-----------------------------------------------------------------------------
(* ShortestPathCalculator *)

get_distance(from_node, to_node) ==
    IF <<from_node, to_node>> \in DOMAIN distance_matrix
    THEN distance_matrix[<<from_node, to_node>>]
    ELSE D_infinity

\* the smallest element of a non-empty set of numbers
MinOf(values) == CHOOSE m \in values : \A x \in values : m <= x

\* one round of edge relaxation from the nodes reached so far
relax(network, dist) ==
    LET reached == DOMAIN dist
        via(v) == {u \in reached : {u, v} \in DOMAIN network.length}
        next == reached \cup {v \in network.nodes : via(v) # {}}
    IN  [v \in next |->
            MinOf((IF v \in reached THEN {dist[v]} ELSE {})
                  \cup {dist[u] + network.length[{u, v}] : u \in via(v)})]

RECURSIVE relax_rounds(_, _, _)
relax_rounds(network, dist, rounds) ==
    IF rounds = 0 THEN dist
    ELSE relax_rounds(network, relax(network, dist), rounds - 1)

\* nx.single_source_dijkstra_path_length(G, source, weight='length'): the
\* shortest path length to every node reachable from source
single_source_dijkstra_path_length(network, source) ==
    relax_rounds(network, (source :> 0), Cardinality(network.nodes))

\* load_batch_for_residential: the distance_matrix it leaves, the rows of
\* shortest_paths whose from_node_id is in the batch
load_batch_for_residential(residential_ids) ==
    [p \in {q \in DOMAIN shortest_paths_db : q[1] \in Range(residential_ids)} |->
        shortest_paths_db[p]]

\* _save_to_database: the rows of shortest_paths after the upsert of matrix
save_to_database(matrix) == matrix @@ shortest_paths_db

\* destinations = M plus every amenity node of L
destinations == graph_M \cup UNION {L[amenity_type] : amenity_type \in DOMAIN L}

\* _compute_sequential: the entries it writes into distance_matrix
compute_sequential(network, residential_nodes, dests) ==
    [p \in {q \in residential_nodes \X dests :
                q[1] \in network.nodes /\ q[2] \in network.nodes} |->
        LET distances == single_source_dijkstra_path_length(network, p[1])
        IN  IF p[2] \in DOMAIN distances THEN distances[p[2]] ELSE D_infinity]

(* PedestrianGraph *)

\* graph.G before load_from_database (the optimizer reads stored distances only)
EmptyGraph == [nodes |-> {}, length |-> <<>>]

get_all_amenity_locations(amenity_type) ==
    IF amenity_type \in DOMAIN L THEN L[amenity_type] ELSE {}

-----------------------------------------------------------------------------
(* WalkScoreCalculator *)

\* pwl_segments without the interpolation: the score at the segment's start
RECURSIVE pwl_segments_flat(_, _)
pwl_segments_flat(distance, i) ==
    IF i > Len(breakpoints) - 1
    THEN ScoreDen * scores[Len(scores)]
    ELSE IF breakpoints[i] * WeightDen * WeightDen <= distance
            /\ distance <= breakpoints[i + 1] * WeightDen * WeightDen
         THEN ScoreDen * scores[i]
         ELSE pwl_segments_flat(distance, i + 1)

\* the segment loop of piecewise_linear_score from index i on; distance is
\* the clamped weighted distance in 1/(WeightDen^2) m, the result in 1/ScoreDen
RECURSIVE pwl_segments(_, _)
pwl_segments(distance, i) ==
    IF i > Len(breakpoints) - 1
    THEN ScoreDen * scores[Len(scores)]
    ELSE LET x1 == breakpoints[i] * WeightDen * WeightDen
             x2 == breakpoints[i + 1] * WeightDen * WeightDen
             y1 == scores[i]
             y2 == scores[i + 1]
         IN  IF x1 <= distance /\ distance <= x2
             THEN IF x2 = x1
                  THEN ScoreDen * y1
                  ELSE Max2(0, Min2(100 * ScoreDen,
                            ScoreDen * y1
                            + ((ScoreDen * (y2 - y1) * (distance - x1)) \div (x2 - x1))))
             ELSE pwl_segments(distance, i + 1)

piecewise_linear_score(distance) ==
    pwl_segments(Max2(0, Min2(distance,
                     breakpoints[Len(breakpoints)] * WeightDen * WeightDen)), 1)

\* all_locations: existing amenities of the type plus the allocated ones
all_locations(amenity_type, allocated_amenities) ==
    get_all_amenity_locations(amenity_type)
    \cup (IF amenity_type \in DOMAIN allocated_amenities
          THEN allocated_amenities[amenity_type] ELSE {})

\* the min loop of the plain branch, starting from D_infinity
RECURSIVE min_distance(_, _, _)
min_distance(residential_id, locs, acc) ==
    IF locs = {} THEN acc
    ELSE LET loc == CHOOSE x \in locs : TRUE
         IN  min_distance(residential_id, locs \ {loc},
                          Min2(acc, get_distance(residential_id, loc)))

plain_contribution(residential_id, amenity_type, allocated_amenities) ==
    LET locs == all_locations(amenity_type, allocated_amenities)
        category_weight == plain_weights[amenity_type]
    IN  IF locs # {}
        THEN category_weight * WeightDen * min_distance(residential_id, locs, D_infinity)
        ELSE category_weight * WeightDen * D_infinity

\* sorted_distances in descending order
RECURSIVE sorted_distances_descending(_, _)
sorted_distances_descending(residential_id, locs) ==
    IF locs = {} THEN <<>>
    ELSE LET loc == CHOOSE x \in locs :
                        \A y \in locs : get_distance(residential_id, x)
                                        >= get_distance(residential_id, y)
         IN  <<get_distance(residential_id, loc)>>
             \o sorted_distances_descending(residential_id, locs \ {loc})

\* distances.sort(): one entry per location, ascending
RECURSIVE sorted_distances(_, _)
sorted_distances(residential_id, locs) ==
    IF locs = {} THEN <<>>
    ELSE LET loc == CHOOSE x \in locs :
                        \A y \in locs : get_distance(residential_id, x)
                                        <= get_distance(residential_id, y)
         IN  <<get_distance(residential_id, loc)>>
             \o sorted_distances(residential_id, locs \ {loc})

depth_category_weight(amenity_type) ==
    IF amenity_type \in DOMAIN type_weight_db /\ type_weight_db[amenity_type] # 0
    THEN type_weight_db[amenity_type]
    ELSE default_depth_category_weight

depth_contribution(residential_id, amenity_type, allocated_amenities) ==
    LET depth_weights_dict == depth_weights[amenity_type]
        category_weight == depth_category_weight(amenity_type)
        locs == all_locations(amenity_type, allocated_amenities)
        distances == sorted_distances(residential_id, locs)
        r == Cardinality(DOMAIN depth_weights_dict)
        term == [rank \in 1..r |->
                    IF rank \in DOMAIN depth_weights_dict
                    THEN depth_weights_dict[rank]
                         * (IF rank <= Len(distances) THEN distances[rank]
                            ELSE D_infinity)
                    ELSE 0]
    IN  IF locs # {}
        THEN category_weight * SetSum(term, 1..r)
        ELSE category_weight
             * (SetSum(depth_weights_dict, DOMAIN depth_weights_dict) * D_infinity)

compute_weighted_distance(residential_id, allocated_amenities) ==
    SetSum([t \in DOMAIN plain_weights |->
               plain_contribution(residential_id, t, allocated_amenities)],
           DOMAIN plain_weights)
    + SetSum([t \in DOMAIN depth_weights |->
               depth_contribution(residential_id, t, allocated_amenities)],
             DOMAIN depth_weights)

compute_walkscore(residential_id, allocated_amenities) ==
    piecewise_linear_score(compute_weighted_distance(residential_id, allocated_amenities))

-----------------------------------------------------------------------------
(* GreedyOptimizer: helpers of optimize *)

\* random.sample(list(population), n) under the guard of lines 85 / 91
sample_choices(population, n) ==
    IF n # 0 /\ Cardinality(population) > n
    THEN {s \in SUBSET population : Cardinality(s) = n}
    ELSE {population}

\* capacity if capacity else 1
initial_capacity(capacity) == IF capacity # 0 THEN capacity ELSE 1

\* all_done one allocation short (>= k - 1 instead of >= k)
all_done_one_short(n, kk) == \A i \in DOMAIN amenity_types : n[amenity_types[i]] >= kk - 1

\* all(n_allocated[a_type] >= k for a_type in amenity_types)
all_done(n, kk) == \A i \in DOMAIN amenity_types : n[amenity_types[i]] >= kk

\* available_candidates with the capacity test off by one (>= instead of >)
available_candidates_cap_off_by_one(caps) ==
    SelectSeq(all_candidates, LAMBDA cid : caps[cid] >= 0)

\* available_candidates without the capacity test
available_candidates_ignoring_capacity(caps) == all_candidates

\* [cid for cid, cap in candidate_capacities.items() if cap > 0]
available_candidates(caps) ==
    SelectSeq(all_candidates, LAMBDA cid : caps[cid] > 0)

\* evaluation_pairs with the budget test off by one (> instead of >=)
RECURSIVE evaluation_pairs_budget_off_by_one(_, _, _, _)
evaluation_pairs_budget_off_by_one(types, available, n, kk) ==
    IF types = <<>> THEN <<>>
    ELSE (IF n[Head(types)] > kk THEN <<>>
          ELSE [i \in 1..Len(available) |-> <<Head(types), available[i]>>])
         \o evaluation_pairs_budget_off_by_one(Tail(types), available, n, kk)

\* the (a_type, candidate_id) pairs in the order the two for loops visit them
RECURSIVE evaluation_pairs(_, _, _, _)
evaluation_pairs(types, available, n, kk) ==
    IF types = <<>> THEN <<>>
    ELSE (IF n[Head(types)] >= kk THEN <<>>
          ELSE [i \in 1..Len(available) |-> <<Head(types), available[i]>>])
         \o evaluation_pairs(Tail(types), available, n, kk)

\* the residents _precompute_nearby_residentials keeps for one candidate
nearby(candidate_id) ==
    {residential_id \in graph_N :
        get_distance(residential_id, candidate_id) <= max_relevant_distance}

\* no_candidates with the test dropped (the ValueError is never raised)
no_candidates_never(nearby_map) == FALSE

\* the else branch of lines 409-414: the index is empty, ValueError is raised
no_candidates(nearby_map) == ~(Cardinality(DOMAIN nearby_map) > 0)

\* _is_cache_valid that never finds the cache valid
is_cache_valid_never(current_S) == FALSE

\* _is_cache_valid
is_cache_valid(current_S) ==
    /\ current_S_cache # <<>>
    /\ \A a_type \in DOMAIN current_S :
          /\ a_type \in DOMAIN current_S_cache[1]
          /\ current_S[a_type] = current_S_cache[1][a_type]

\* _rebuild_cache: the new walkscore_cache
rebuild_cache(current_S) ==
    [network_node_id \in graph_N |-> compute_walkscore(network_node_id, current_S)]

\* the cache _calculate_objective_increase reads, after its validity check
cache_for(current_S) ==
    IF is_cache_valid(current_S) THEN walkscore_cache ELSE rebuild_cache(current_S)

\* nearby_residentials.get(candidate_id, [])
affected_nodes(candidate_id) ==
    IF candidate_id \in DOMAIN nearby_residentials
    THEN nearby_residentials[candidate_id] ELSE {}

\* new_S: a copy of current_S with candidate_id added to amenity_type
with_allocation(current_S, amenity_type, candidate_id) ==
    [a_type \in DOMAIN current_S \cup {amenity_type} |->
        IF a_type = amenity_type
        THEN (IF a_type \in DOMAIN current_S THEN current_S[a_type] ELSE {})
             \cup {candidate_id}
        ELSE current_S[a_type]]

\* _calculate_objective_increase, reading the given cache
calculate_objective_increase(cache, current_S, amenity_type, candidate_id) ==
    LET affected_network_nodes == affected_nodes(candidate_id)
        new_S == with_allocation(current_S, amenity_type, candidate_id)
        affected_buildings ==
            {b \in residential_buildings : b[2] \in affected_network_nodes}
        total_improvement ==
            SetSum([b \in affected_buildings |->
                       compute_walkscore(b[2], new_S) - cache[b[2]]],
                   affected_buildings)
        num_buildings == Cardinality(residential_buildings)
    IN  IF affected_network_nodes = {} THEN <<0, 1>>
        ELSE IF num_buildings > 0 THEN <<total_improvement, num_buildings>>
        ELSE <<0, 1>>

\* _calculate_objective dividing by the number of distinct snapped nodes
calculate_objective_by_nodes(allocated_amenities) ==
    IF residential_buildings = {} THEN <<0, 1>>
    ELSE <<SetSum([b \in residential_buildings |->
                      compute_walkscore(b[2], allocated_amenities)],
                  residential_buildings),
           Cardinality({b[2] : b \in residential_buildings})>>

\* _calculate_objective: average WalkScore over all residential buildings
calculate_objective(allocated_amenities) ==
    IF residential_buildings = {} THEN <<0, 1>>
    ELSE <<SetSum([b \in residential_buildings |->
                      compute_walkscore(b[2], allocated_amenities)],
                  residential_buildings),
           Cardinality(residential_buildings)>>

\* improves with the comparison reversed (< instead of >)
improves_reversed(increase, best) == best[2] = 0 \/ Greater(best, increase)

\* if increase > best_increase
improves(increase, best) == Greater(increase, best)

\* the two for loops of lines 175-191 over the pairs still to visit
RECURSIVE scan_pairs(_, _, _, _, _)
scan_pairs(pairs, cache, current_S, pair, increase) ==
    IF pairs = <<>> THEN [pair |-> pair, increase |-> increase]
    ELSE LET p == Head(pairs)
             inc == calculate_objective_increase(cache, current_S, p[1], p[2])
         IN  IF improves(inc, increase)
             THEN scan_pairs(Tail(pairs), cache, current_S, p, inc)
             ELSE scan_pairs(Tail(pairs), cache, current_S, pair, increase)

\* _update_cache_after_allocation: the new walkscore_cache
update_cache_after_allocation(current_S, candidate_id) ==
    LET affected_network_nodes == affected_nodes(candidate_id)
    IN  [u \in DOMAIN walkscore_cache \cup affected_network_nodes |->
            IF u \in affected_network_nodes
            THEN compute_walkscore(u, current_S)
            ELSE walkscore_cache[u]]

-----------------------------------------------------------------------------
(* DemoRecorder *)

\* scenario = f'greedy_k{k}'
scenario == k

\* record_iteration after its self.iteration_count += 1: the resulting rows of
\* optimization_iterations. The insert is skipped when the amenity type has no
\* row in amenity_types or the node no row in candidate_locations
record_iteration(amenity_type, candidate_node_id, improvement, current_objective) ==
    IF amenity_type \notin DOMAIN type_weight_db THEN optimization_iterations
    ELSE IF candidate_node_id \notin DOMAIN capacity_db THEN optimization_iterations
    ELSE Append(optimization_iterations,
                [scenario |-> scenario,
                 iteration_number |-> recorder.iteration_count + 1,
                 amenity_type |-> amenity_type,
                 candidate_id |-> candidate_node_id,
                 improvement |-> improvement,
                 current_objective |-> current_objective])

\* finalize: the resulting rows of optimization_recordings (one per scenario)
finalize(final_objective) ==
    (scenario :> [algorithm |-> "greedy",
                  k_value |-> k,
                  total_iterations |-> recorder.iteration_count,
                  final_objective |-> final_objective])
    @@ optimization_recordings

-----------------------------------------------------------------------------
(* GreedyOptimizer.optimize, one action per step *)

\* lines 81-106: remember the node sets, sample them in fast mode, create the
\* recorder if recording was asked for
Sample ==
    /\ pc = "ready"
    /\ original_N' = graph_N
    /\ original_M' = graph_M
    /\ graph_N' \in sample_choices(graph_N, fast_mode_residential_sample)
    /\ graph_M' \in sample_choices(graph_M, fast_mode_candidate_sample)
    /\ recorder' = IF record_demo THEN [iteration_count |-> 0] ELSE <<>>
    /\ pc' = "sampled"
    /\ UNCHANGED <<record_demo, database, parallel,
                   inputs, nearby_residentials, S, n_allocated, candidate_capacities,
                   all_candidates, walkscore_cache, current_S_cache, best_pair,
                   best_increase, iteration, commits, first_run, query>>

\* lines 109-113 and _precompute_nearby_residentials
Precompute ==
    /\ pc = "sampled"
    /\ nearby_residentials' = [candidate_id \in graph_M |-> nearby(candidate_id)]
    /\ pc' = IF no_candidates([candidate_id \in graph_M |-> nearby(candidate_id)])
             THEN "error" ELSE "prepared"
    /\ UNCHANGED <<recording, database, parallel,
                   inputs, graph, original_N, original_M, S, n_allocated,
                   candidate_capacities, all_candidates, walkscore_cache,
                   current_S_cache, best_pair, best_increase, iteration, commits,
                   first_run, query>>

\* lines 115-139: empty solution, counters, capacities
InitSolution ==
    /\ pc = "prepared"
    /\ S' = [a_type \in Range(amenity_types) |-> {}]
    /\ n_allocated' = [a_type \in Range(amenity_types) |-> 0]
    /\ all_candidates' = SeqOfSet(M_enum, graph_M)
    /\ candidate_capacities' =
          [candidate_id \in graph_M |-> initial_capacity(capacity_db[candidate_id])]
    /\ iteration' = 0
    /\ pc' = "loop"
    /\ UNCHANGED <<recording, database, parallel,
                   inputs, graph, original_N, original_M, nearby_residentials,
                   walkscore_cache, current_S_cache, best_pair, best_increase,
                   commits, first_run, query>>

\* lines 145-217: the loop head and the search for the best pair
Scan ==
    /\ pc = "loop"
    /\ IF all_done(n_allocated, k) \/ available_candidates(candidate_capacities) = <<>>
       THEN /\ pc' = "finish"
            /\ UNCHANGED <<walkscore_cache, current_S_cache, best_pair, best_increase>>
       ELSE LET pairs == evaluation_pairs(amenity_types,
                             available_candidates(candidate_capacities), n_allocated, k)
                cache == IF pairs = <<>> THEN walkscore_cache ELSE cache_for(S)
                found == scan_pairs(pairs, cache, S, <<>>, NegInf)
            IN  /\ walkscore_cache' = cache
                /\ current_S_cache' = IF pairs = <<>> \/ is_cache_valid(S)
                                      THEN current_S_cache ELSE <<S>>
                /\ best_pair' = found.pair
                /\ best_increase' = found.increase
                /\ pc' = IF found.pair = <<>> THEN "finish" ELSE "commit"
    /\ UNCHANGED <<recording, database, parallel,
                   inputs, graph, original_N, original_M, nearby_residentials, S,
                   n_allocated, candidate_capacities, all_candidates, iteration,
                   commits, first_run, query>>

\* lines 219-266: allocate the best pair, update the cache, report
Commit ==
    /\ pc = "commit"
    /\ LET a_type == best_pair[1]
           candidate_id == best_pair[2]
           new_S == [S EXCEPT ![a_type] = @ \cup {candidate_id}]
       IN  /\ S' = new_S
           /\ n_allocated' = [n_allocated EXCEPT ![a_type] = @ + 1]
           /\ candidate_capacities' = [candidate_capacities EXCEPT ![candidate_id] = @ - 1]
           /\ walkscore_cache' = update_cache_after_allocation(new_S, candidate_id)
           /\ current_S_cache' =
                 <<with_allocation(current_S_cache[1], a_type, candidate_id)>>
           /\ commits' = Append(commits, [amenity_type |-> a_type,
                                          candidate_id |-> candidate_id,
                                          increase |-> best_increase])
           /\ IF record_demo
              THEN /\ recorder' = [recorder EXCEPT !.iteration_count = @ + 1]
                   /\ optimization_iterations' =
                         record_iteration(a_type, candidate_id, best_increase,
                                          calculate_objective(new_S))
              ELSE UNCHANGED <<recorder, optimization_iterations>>
    /\ iteration' = iteration + 1
    /\ pc' = "loop"
    /\ UNCHANGED <<record_demo, shortest_paths_db, walkability_scores,
                   optimization_recordings, parallel,
                   inputs, graph, original_N, original_M, nearby_residentials,
                   all_candidates, best_pair, best_increase, first_run, query>>

\* lines 268-285: finalize the recording, restore the node sets if sampling
\* was configured, return S
Finish ==
    /\ pc = "finish"
    /\ IF fast_mode_residential_sample # 0 \/ fast_mode_candidate_sample # 0
       THEN graph_N' = original_N /\ graph_M' = original_M
       ELSE UNCHANGED graph
    /\ optimization_recordings' =
          IF recorder # <<>> THEN finalize(calculate_objective(S))
          ELSE optimization_recordings
    /\ pc' = "done"
    /\ UNCHANGED <<recording, shortest_paths_db, walkability_scores,
                   optimization_iterations, parallel,
                   inputs, original_N, original_M, nearby_residentials, S, n_allocated,
                   candidate_capacities, all_candidates, walkscore_cache,
                   current_S_cache, best_pair, best_increase, iteration, commits,
                   first_run, query>>

-----------------------------------------------------------------------------
(* Initial states *)

\* distances a stored (resident, candidate) pair may have, in metres: near,
\* beyond D_infinity but within the neighbourhood radius, beyond the radius
DistVals == {300, 2500, 3500}

\* the stored resident-to-candidate distances the runs are drawn from
CandidateDistances ==
    {d \in [ResidentNodes \X CandidateNodes -> DistVals] :
        \A j \in CandidateNodes : d[<<2, j>>] # 2500}

\* the fast-mode sample sizes (residential, candidate) the runs are drawn from
FastModes == {<<0, 0>>, <<1, 0>>, <<0, 1>>}

\* the evaluator's configuration: walkscore.breakpoints / walkscore.scores and
\* the weight tables, in units of 1/WeightDen
DefaultBreakpoints == <<0, 400, 1800, 2400>>
DefaultScores == <<100, 100, 0, 0>>
PlainWeights == [grocery |-> 10]
DepthWeights == [restaurant |-> <<5, 3, 2>>]
TypeWeights == [grocery |-> 10, restaurant |-> 6]

\* distances from the residents to the existing amenities (node 5 a grocery,
\* node 6 a restaurant); resident 2 has no stored distance to the grocery
ExistingDistances ==
    (<<1, 5>> :> 600) @@ (<<1, 6>> :> 300) @@ (<<2, 6>> :> 900)

\* three buildings, two of them snapped to node 1
Buildings == {<<101, 1>>, <<102, 1>>, <<103, 2>>}

NoQuery == [res |-> 0, S |-> <<>>, score |-> 0, prev_S |-> <<>>, prev_score |-> 0]

FreshOptimizer ==
    /\ pc = "ready"
    /\ original_N = {}
    /\ original_M = {}
    /\ nearby_residentials = <<>>
    /\ S = <<>>
    /\ n_allocated = <<>>
    /\ candidate_capacities = <<>>
    /\ all_candidates = <<>>
    /\ walkscore_cache = <<>>
    /\ current_S_cache = <<>>
    /\ best_pair = <<>>
    /\ best_increase = NegInf
    /\ iteration = 0
    /\ commits = <<>>

\* the tables as load_from_database found them, nothing recorded or computed
\* in parallel yet
Surroundings ==
    /\ shortest_paths_db = distance_matrix
    /\ walkability_scores = <<>>
    /\ recorder = <<>>
    /\ optimization_iterations = <<>>
    /\ optimization_recordings = <<>>
    /\ parallel = <<>>

EvaluatorConfig ==
    /\ plain_weights = PlainWeights
    /\ depth_weights = DepthWeights
    /\ type_weight_db = TypeWeights
    /\ breakpoints = DefaultBreakpoints
    /\ scores = DefaultScores

Init ==
    /\ graph_G = EmptyGraph
    /\ L = [grocery |-> {5}, restaurant |-> {6}]
    /\ \E d \in CandidateDistances : distance_matrix = d @@ ExistingDistances
    /\ residential_buildings = Buildings
    /\ capacity_db \in [CandidateNodes -> 0..MaxCap]
    /\ M_enum \in Orderings(CandidateNodes)
    /\ k \in 1..MaxK
    /\ amenity_types \in {<<"grocery", "restaurant">>, <<"restaurant", "grocery">>}
    /\ \E f \in FastModes : /\ fast_mode_residential_sample = f[1]
                            /\ fast_mode_candidate_sample = f[2]
    /\ EvaluatorConfig
    /\ graph_N = ResidentNodes
    /\ graph_M = CandidateNodes
    /\ FreshOptimizer
    /\ first_run = <<>>
    /\ query = NoQuery
    /\ Surroundings
    /\ record_demo = FALSE

Next ==
    \/ Sample
    \/ Precompute
    \/ InitSolution
    \/ Scan
    \/ Commit
    \/ Finish

Spec == Init /\ [][Next]_vars

-----------------------------------------------------------------------------
(* The evaluator on its own: compute_walkscore applied to drawn inputs *)

\* allocation sets {amenity_type: set of candidate nodes}
Allocations == [TypeNames -> SUBSET CandidateNodes]

SubAllocation(A, B) == \A t \in DOMAIN A : A[t] \subseteq B[t]

\* the (type, candidate) pairs B has and A lacks
AddedPairs(A, B) == {p \in TypeNames \X CandidateNodes : p[2] \in B[p[1]] \ A[p[1]]}

\* stored distances of resident 1 (resident 2 has none stored): any subset of
\* the candidate pairs with any value, the existing amenities near or absent
ScorerMatrices ==
    UNION {[D -> DistVals \cup {1500}] :
              D \in SUBSET ({1} \X (CandidateNodes \cup AmenityNodes))}

ScorerInit ==
    /\ graph_G = EmptyGraph
    /\ L \in {[grocery |-> G, restaurant |-> R] : G \in {{}, {5}}, R \in {{}, {6}}}
    /\ \E d \in ScorerMatrices :
          /\ \A p \in DOMAIN d : p[2] \in AmenityNodes => d[p] = 300
          /\ distance_matrix = d
    /\ residential_buildings = Buildings
    /\ capacity_db = [j \in CandidateNodes |-> 1]
    /\ M_enum = <<3, 4>>
    /\ k = 1
    /\ amenity_types = <<"grocery", "restaurant">>
    /\ fast_mode_residential_sample = 0
    /\ fast_mode_candidate_sample = 0
    /\ EvaluatorConfig
    /\ graph_N = ResidentNodes
    /\ graph_M = CandidateNodes
    /\ FreshOptimizer
    /\ first_run = <<>>
    /\ query = NoQuery
    /\ Surroundings
    /\ record_demo = FALSE

\* compute_walkscore(residential_id, allocated_amenities), first query
ScoreQuery ==
    /\ query.res = 0
    /\ \E r \in ResidentNodes, A \in Allocations :
          query' = [res |-> r, S |-> A, score |-> compute_walkscore(r, A),
                    prev_S |-> A, prev_score |-> compute_walkscore(r, A)]
    /\ UNCHANGED <<recording, database, parallel,
                   inputs, graph, optimizer, first_run>>

\* compute_walkscore for the same resident under a larger allocation set
ScoreLarger ==
    /\ query.res # 0
    /\ query.S = query.prev_S
    /\ \E A \in Allocations :
          /\ SubAllocation(query.S, A)
          /\ A # query.S
          /\ query' = [res |-> query.res, S |-> A,
                       score |-> compute_walkscore(query.res, A),
                       prev_S |-> query.S, prev_score |-> query.score]
    /\ UNCHANGED <<recording, database, parallel,
                   inputs, graph, optimizer, first_run>>

ScorerNext == ScoreQuery \/ ScoreLarger

SpecScorer == ScorerInit /\ [][ScorerNext]_vars

-----------------------------------------------------------------------------
(* The evaluator's weighted distance, category by category *)

\* stored distances of resident 1 to the candidates, in metres
WeightedDistVals == {300, 900, 1500, 2500}

WeightedMatrices ==
    {d \in UNION {[D -> WeightedDistVals] :
                     D \in SUBSET ({1} \X (CandidateNodes \cup AmenityNodes))} :
        \A p \in DOMAIN d : p[2] \in AmenityNodes => d[p] = 300}

WeightedInit ==
    /\ graph_G = EmptyGraph
    /\ L \in {[grocery |-> Gr, restaurant |-> Re] : Gr \in {{}, {5}}, Re \in {{}, {6}}}
    /\ distance_matrix \in WeightedMatrices
    /\ residential_buildings = Buildings
    /\ capacity_db = [j \in CandidateNodes |-> 1]
    /\ M_enum = <<3, 4>>
    /\ k = 1
    /\ amenity_types = <<"grocery", "restaurant">>
    /\ fast_mode_residential_sample = 0
    /\ fast_mode_candidate_sample = 0
    /\ EvaluatorConfig
    /\ graph_N = ResidentNodes
    /\ graph_M = CandidateNodes
    /\ FreshOptimizer
    /\ first_run = <<>>
    /\ query = NoQuery
    /\ Surroundings
    /\ record_demo = FALSE

\* compute_weighted_distance(residential_id, allocated_amenities): what each
\* plain and each depth category adds, and the returned total
WeightedQuery ==
    /\ \E r \in ResidentNodes, A \in Allocations :
          query' = [res |-> r, S |-> A,
                    plain |-> [c \in DOMAIN plain_weights |-> plain_contribution(r, c, A)],
                    depth |-> [c \in DOMAIN depth_weights |-> depth_contribution(r, c, A)],
                    weighted |-> compute_weighted_distance(r, A)]
    /\ UNCHANGED <<recording, database, parallel,
                   inputs, graph, optimizer, first_run>>

WeightedNext == WeightedQuery

SpecWeighted == WeightedInit /\ [][WeightedNext]_vars

-----------------------------------------------------------------------------
(* piecewise_linear_score under any configured breakpoints *)

\* the configured x-sequences: non-decreasing, repeated breakpoints included
BreakpointVectors ==
    {x \in [1..4 -> {0, 400, 1800, 2400}] : \A i \in 1..3 : x[i] <= x[i + 1]}

\* the configured y-sequences
ScoreVectors == [1..4 -> {0, 50, 100}]

PwlInit ==
    /\ graph_G = EmptyGraph
    /\ L = [grocery |-> {5}, restaurant |-> {6}]
    /\ distance_matrix = ExistingDistances
    /\ residential_buildings = Buildings
    /\ capacity_db = [j \in CandidateNodes |-> 1]
    /\ M_enum = <<3, 4>>
    /\ k = 1
    /\ amenity_types = <<"grocery", "restaurant">>
    /\ fast_mode_residential_sample = 0
    /\ fast_mode_candidate_sample = 0
    /\ plain_weights = PlainWeights
    /\ depth_weights = DepthWeights
    /\ type_weight_db = TypeWeights
    /\ breakpoints \in BreakpointVectors
    /\ scores \in ScoreVectors
    /\ graph_N = ResidentNodes
    /\ graph_M = CandidateNodes
    /\ FreshOptimizer
    /\ first_run = <<>>
    /\ query = NoQuery
    /\ Surroundings
    /\ record_demo = FALSE

\* piecewise_linear_score(distance) at a breakpoint (quarter 0 or 4) or at a
\* quarter point of a segment; the distance is held in 1/(WeightDen^2) m
PwlQuery ==
    /\ \E i \in 1..(Len(breakpoints) - 1), quarter \in 0..4 :
          LET distance == breakpoints[i] * WeightDen * WeightDen
                          + (((breakpoints[i + 1] - breakpoints[i])
                              * WeightDen * WeightDen) \div 4) * quarter
          IN  query' = [segment |-> i, quarter |-> quarter, distance |-> distance,
                        score |-> piecewise_linear_score(distance)]
    /\ UNCHANGED <<recording, database, parallel,
                   inputs, graph, optimizer, first_run>>

PwlNext == PwlQuery

SpecPwl == PwlInit /\ [][PwlNext]_vars

-----------------------------------------------------------------------------
(* piecewise_linear_score outside and at the outer breakpoints *)

\* weighted distances asked for, in metres: below 0, between 0 and a first
\* breakpoint, at the breakpoints, beyond the last one
OuterDistances == {-200, 0, 200, 400, 1800, 2400, 3000}

\* piecewise_linear_score(distance) for any of these distances
PwlOuterQuery ==
    /\ \E d \in OuterDistances :
          query' = [outer |-> d,
                    score |-> piecewise_linear_score(d * WeightDen * WeightDen)]
    /\ UNCHANGED <<recording, database, parallel,
                   inputs, graph, optimizer, first_run>>

PwlOuterNext == PwlOuterQuery

SpecPwlOuter == PwlInit /\ [][PwlOuterNext]_vars

-----------------------------------------------------------------------------
(* Two runs of optimize on the same inputs, each on a fresh optimizer *)

Rerun ==
    /\ pc = "done"
    /\ first_run = <<>>
    /\ first_run' = <<[S |-> S, commits |-> commits]>>
    /\ pc' = "ready"
    /\ original_N' = {}
    /\ original_M' = {}
    /\ nearby_residentials' = <<>>
    /\ S' = <<>>
    /\ n_allocated' = <<>>
    /\ candidate_capacities' = <<>>
    /\ all_candidates' = <<>>
    /\ walkscore_cache' = <<>>
    /\ current_S_cache' = <<>>
    /\ best_pair' = <<>>
    /\ best_increase' = NegInf
    /\ iteration' = 0
    /\ commits' = <<>>
    /\ UNCHANGED <<recording, database, parallel,
                   inputs, graph, query>>

TwoRunsNext == Next \/ Rerun

SpecTwoRuns == Init /\ [][TwoRunsNext]_vars

-----------------------------------------------------------------------------
(* The distance fabric: compute_all_distances on a small pedestrian network *)

\* nodes 1, 2 residential (2 also a restaurant), 3 a candidate, 5 a grocery
FabricNodes == {1, 2, 3, 5}
FabricEdges == {{1, 2}, {1, 3}, {2, 3}, {3, 5}, {1, 5}}
EdgeLengths == {300, 1300, 2500}

FabricInit ==
    /\ \E E \in SUBSET FabricEdges : \E len \in [E -> EdgeLengths] :
          graph_G = [nodes |-> FabricNodes, length |-> len]
    /\ distance_matrix = <<>>
    /\ L = [grocery |-> {5}, restaurant |-> {2}]
    /\ residential_buildings = Buildings
    /\ capacity_db = [j \in CandidateNodes |-> 1]
    /\ M_enum = <<3, 4>>
    /\ k = 1
    /\ amenity_types = <<"grocery", "restaurant">>
    /\ fast_mode_residential_sample = 0
    /\ fast_mode_candidate_sample = 0
    /\ EvaluatorConfig
    /\ graph_N = {1, 2}
    /\ graph_M = {3}
    /\ FreshOptimizer
    /\ first_run = <<>>
    /\ query = NoQuery
    /\ Surroundings
    /\ record_demo = FALSE

\* compute_all_distances (single-threaded path; the workers of the parallel
\* path store the same entries)
ComputeAllDistances ==
    /\ graph_G # EmptyGraph
    /\ distance_matrix' =
          compute_sequential(graph_G, graph_N, destinations) @@ distance_matrix
    /\ \E save_to_db \in BOOLEAN :
          shortest_paths_db' = IF save_to_db
                               THEN save_to_database(distance_matrix')
                               ELSE shortest_paths_db
    /\ UNCHANGED <<recording, walkability_scores, optimization_iterations,
                   optimization_recordings, parallel,
                   graph_G, L, residential_buildings, capacity_db, M_enum, k, amenity_types,
                   fast_mode_residential_sample, fast_mode_candidate_sample,
                   plain_weights, depth_weights, type_weight_db, breakpoints, scores,
                   graph, optimizer, first_run, query>>

FabricNext == ComputeAllDistances

SpecFabric == FabricInit /\ [][FabricNext]_vars

-----------------------------------------------------------------------------
(* The evaluator's batch operations on a computed fabric *)

\* residential_ids[start:end] for start in range(0, total, batch_size)
RECURSIVE batches(_, _)
batches(ids, size) ==
    IF ids = <<>> THEN <<>>
    ELSE IF Len(ids) <= size THEN <<ids>>
    ELSE <<SubSeq(ids, 1, size)>> \o batches(SubSeq(ids, size + 1, Len(ids)), size)

\* the distance_matrix left by the batch loop: the load of its last batch
matrix_after_batches(ids) ==
    LET batch_list == batches(ids, batch_size)
    IN  IF batch_list = <<>> THEN distance_matrix
        ELSE load_batch_for_residential(batch_list[Len(batch_list)])

\* the networks the fabric was computed on
BaselineEdges == {{1, 2}, {1, 3}, {3, 5}}
BaselineLengths == {300, 1300}

\* the fabric has been computed by compute_all_distances, with or without
\* save_to_db
BaselineInit ==
    /\ \E E \in SUBSET BaselineEdges : \E len \in [E -> BaselineLengths] :
          graph_G = [nodes |-> FabricNodes, length |-> len]
    /\ L = [grocery |-> {5}, restaurant |-> {2}]
    /\ graph_N = {1, 2}
    /\ graph_M = {3}
    /\ distance_matrix = compute_sequential(graph_G, graph_N, destinations)
    /\ shortest_paths_db \in {distance_matrix, <<>>}
    /\ residential_buildings = Buildings
    /\ capacity_db = [j \in CandidateNodes |-> 1]
    /\ M_enum = <<3, 4>>
    /\ k = 1
    /\ amenity_types = <<"grocery", "restaurant">>
    /\ fast_mode_residential_sample = 0
    /\ fast_mode_candidate_sample = 0
    /\ EvaluatorConfig
    /\ FreshOptimizer
    /\ first_run = <<>>
    /\ query = NoQuery
    /\ record_demo = FALSE
    /\ recorder = <<>>
    /\ walkability_scores = <<>>
    /\ optimization_iterations = <<>>
    /\ optimization_recordings = <<>>
    /\ parallel = <<>>

\* compute_walkscore(residential_id)
ComputeWalkscore ==
    /\ \E residential_id \in graph_N :
          query' = [op |-> "compute_walkscore", res |-> residential_id,
                    value |-> compute_walkscore(residential_id, <<>>)]
    /\ UNCHANGED <<inputs, graph, optimizer, first_run, recording, database, parallel>>

\* compute_weighted_distance(residential_id)
ComputeWeightedDistance ==
    /\ \E residential_id \in graph_N :
          query' = [op |-> "compute_weighted_distance", res |-> residential_id,
                    value |-> compute_weighted_distance(residential_id, <<>>)]
    /\ UNCHANGED <<inputs, graph, optimizer, first_run, recording, database, parallel>>

\* _save_scores_to_db(scores): per batch of the keys of scores, load the batch
\* and upsert one row per key; the weighted distance is computed after the load
SaveScoresToDb ==
    /\ \E keys \in SUBSET graph_N : \E residential_ids \in Orderings(keys) :
          /\ distance_matrix' = matrix_after_batches(residential_ids)
          /\ UNCHANGED <<graph_G, L, residential_buildings, capacity_db, M_enum, k,
                         amenity_types, fast_mode_residential_sample,
                         fast_mode_candidate_sample, plain_weights, depth_weights,
                         type_weight_db, breakpoints, scores, shortest_paths_db>>
          /\ walkability_scores' =
                [r \in keys |->
                    [scenario |-> "baseline",
                     weighted_distance |-> compute_weighted_distance(r, <<>>)',
                     walkscore |-> compute_walkscore(r, <<>>)]]
                @@ walkability_scores
          /\ query' = [op |-> "_save_scores_to_db", res |-> keys, value |-> 0]
    /\ UNCHANGED <<graph, optimizer, first_run, recording, optimization_iterations,
                   optimization_recordings, parallel>>

\* compute_baseline_scores(save_to_db): per batch of list(graph.N), load the
\* batch and score its nodes; then _save_scores_to_db if asked. Every node set
\* of the model fits one batch, so each score is computed on the matrix the
\* loop leaves
ComputeBaselineScores ==
    /\ \E residential_ids \in Orderings(graph_N) : \E save_to_db \in BOOLEAN :
          /\ distance_matrix' = matrix_after_batches(residential_ids)
          /\ UNCHANGED <<graph_G, L, residential_buildings, capacity_db, M_enum, k,
                         amenity_types, fast_mode_residential_sample,
                         fast_mode_candidate_sample, plain_weights, depth_weights,
                         type_weight_db, breakpoints, scores, shortest_paths_db>>
          /\ query' = [op |-> "compute_baseline_scores", res |-> graph_N,
                       value |-> [r \in graph_N |-> compute_walkscore(r, <<>>)']]
          /\ walkability_scores' =
                IF save_to_db
                THEN [r \in graph_N |->
                         [scenario |-> "baseline",
                          weighted_distance |-> compute_weighted_distance(r, <<>>)',
                          walkscore |-> compute_walkscore(r, <<>>)']]
                     @@ walkability_scores
                ELSE walkability_scores
    /\ UNCHANGED <<graph, optimizer, first_run, recording, optimization_iterations,
                   optimization_recordings, parallel>>

BaselineNext ==
    \/ ComputeWalkscore
    \/ ComputeWeightedDistance
    \/ SaveScoresToDb
    \/ ComputeBaselineScores

SpecBaseline == BaselineInit /\ [][BaselineNext]_vars

-----------------------------------------------------------------------------
(* _compute_parallel: chunks handed to worker processes, results merged as
   they complete *)

\* nx.node_link_data(G): the node list and one link record per edge
node_link_data(network) ==
    [nodes |-> network.nodes,
     links |-> {[source |-> MinOf(e), target |-> MinOf(e \ {MinOf(e)}),
                 length |-> network.length[e]] : e \in DOMAIN network.length}]

\* nx.node_link_graph(data): the graph rebuilt from the records
node_link_graph(G_data) ==
    [nodes |-> G_data.nodes,
     length |-> [e \in {{l.source, l.target} : l \in G_data.links} |->
                    (CHOOSE l \in G_data.links : {l.source, l.target} = e).length]]

\* the chunk list cut off after n_workers chunks
split_chunks_one_per_worker(residential_nodes, n_workers) ==
    LET all_chunks == batches(residential_nodes,
                              Max2(1, Len(residential_nodes) \div n_workers))
    IN  SubSeq(all_chunks, 1, Min2(Len(all_chunks), n_workers))

\* chunk_size = max(1, len(residential_nodes) // n_workers) and the slices
\* residential_nodes[i:i + chunk_size]
split_chunks(residential_nodes, n_workers) ==
    batches(residential_nodes, Max2(1, Len(residential_nodes) \div n_workers))

\* _compute_chunk_worker: the result dictionary of one chunk
compute_chunk_worker(G_data, chunk_nodes, dests, D_inf) ==
    LET network == node_link_graph(G_data)
    IN  [p \in {q \in Range(chunk_nodes) \X dests :
                    q[1] \in network.nodes /\ q[2] \in network.nodes} |->
            LET distances == single_source_dijkstra_path_length(network, p[1])
            IN  IF p[2] \in DOMAIN distances THEN distances[p[2]] ELSE D_inf]

\* the networks and residential sets of the parallel runs
ParallelEdges == {{1, 2}, {1, 3}, {2, 3}, {3, 5}}
ParallelResidents == {{1, 2, 3}, {1, 2, 3, 5}}

ParallelInit ==
    /\ \E E \in SUBSET ParallelEdges : \E len \in [E -> BaselineLengths] :
          graph_G = [nodes |-> FabricNodes, length |-> len]
    /\ L = [grocery |-> {5}, restaurant |-> {2}]
    /\ graph_N \in ParallelResidents
    /\ graph_M = {3}
    /\ distance_matrix = <<>>
    /\ residential_buildings = Buildings
    /\ capacity_db = [j \in CandidateNodes |-> 1]
    /\ M_enum = <<3, 4>>
    /\ k = 1
    /\ amenity_types = <<"grocery", "restaurant">>
    /\ fast_mode_residential_sample = 0
    /\ fast_mode_candidate_sample = 0
    /\ EvaluatorConfig
    /\ FreshOptimizer
    /\ first_run = <<>>
    /\ query = NoQuery
    /\ Surroundings
    /\ record_demo = FALSE

\* _compute_parallel up to the submission of every chunk (lines 136-156)
SubmitChunks ==
    /\ parallel = <<>>
    /\ \E n_workers \in 1..MaxWorkers : \E residential_nodes \in Orderings(graph_N) :
          LET chunks == split_chunks(residential_nodes, n_workers)
          IN  parallel' = [chunks |-> chunks, futures |-> 1..Len(chunks)]
    /\ UNCHANGED <<inputs, graph, optimizer, first_run, query, recording, database>>

\* one round of the as_completed loop (lines 158-162): the result of a chunk
\* that has completed, whichever it is, is merged with dict.update
CollectResult ==
    /\ parallel # <<>>
    /\ \E future \in parallel.futures :
          /\ distance_matrix' =
                compute_chunk_worker(node_link_data(graph_G), parallel.chunks[future],
                                     destinations, D_infinity)
                @@ distance_matrix
          /\ parallel' = [parallel EXCEPT !.futures = @ \ {future}]
    /\ UNCHANGED <<graph_G, L, residential_buildings, capacity_db, M_enum, k,
                   amenity_types, fast_mode_residential_sample,
                   fast_mode_candidate_sample, plain_weights, depth_weights,
                   type_weight_db, breakpoints, scores,
                   graph, optimizer, first_run, query, recording, database>>

ParallelNext == SubmitChunks \/ CollectResult

SpecParallel == ParallelInit /\ [][ParallelNext]_vars

-----------------------------------------------------------------------------
(* optimize called with any configuration: k <= 0, an empty category list, a *)
(* category without weights, an empty candidate set                          *)

\* the category lists optimize is called with; "park" has no weight entry
CategoryLists ==
    {<<>>, <<"grocery">>, <<"grocery", "restaurant">>,
     <<"grocery", "restaurant", "school">>, <<"park", "grocery">>,
     <<"grocery", "park">>}

\* plain weights with a third category, in units of 1/WeightDen
ConfigPlainWeights == [grocery |-> 10, school |-> 1]

\* the stored resident-to-candidate distances of these runs
ConfigDistances ==
    {[p \in ResidentNodes \X CandidateNodes |-> 300],
     (<<1, 3>> :> 300) @@ (<<1, 4>> :> 3500) @@ (<<2, 3>> :> 3500) @@ (<<2, 4>> :> 300)}

ConfigInit ==
    /\ graph_G = EmptyGraph
    /\ L = [grocery |-> {5}, restaurant |-> {6}]
    /\ \E d \in ConfigDistances : distance_matrix = d @@ ExistingDistances
    /\ residential_buildings = Buildings
    /\ capacity_db \in [CandidateNodes -> 0..MaxCap]
    /\ M_enum \in Orderings(CandidateNodes)
    /\ k \in (-1)..MaxK
    /\ amenity_types \in CategoryLists
    /\ \E f \in FastModes : /\ fast_mode_residential_sample = f[1]
                            /\ fast_mode_candidate_sample = f[2]
    /\ plain_weights = ConfigPlainWeights
    /\ depth_weights = DepthWeights
    /\ type_weight_db = TypeWeights
    /\ breakpoints = DefaultBreakpoints
    /\ scores = DefaultScores
    /\ graph_N = ResidentNodes
    /\ graph_M \in SUBSET CandidateNodes
    /\ FreshOptimizer
    /\ first_run = <<>>
    /\ query = NoQuery
    /\ Surroundings
    /\ record_demo \in BOOLEAN

SpecConfig == ConfigInit /\ [][Next]_vars

-----------------------------------------------------------------------------
(* A run of optimize that is not abandoned: optimize is one sequential call,
   so as long as it has neither returned nor raised the interpreter takes its
   next step. Every step of Next moves pc and a step of Next is possible
   exactly when pc is neither "done" nor "error", so the condition below is
   weak fairness of Next, stated on pc alone *)

\* the call moves on to another step
Advance ==
    /\ pc \notin {"done", "error"}
    /\ pc' \in {"sampled", "prepared", "loop", "commit", "finish", "done", "error"}

FairSpec == Spec /\ WF_pc(Advance)

-----------------------------------------------------------------------------
(* A second call of optimize on the same GreedyOptimizer *)

\* the category lists and budgets of the second call
SecondCallTypes == {<<"restaurant">>, <<"grocery">>, <<"restaurant", "grocery">>}

\* optimize(k, amenity_types) called again on the optimizer that has returned:
\* the locals of the call start afresh, the attributes set by __init__
\* (walkscore_cache, current_S_cache) and by the previous call stay
CallAgain ==
    /\ pc = "done"
    /\ first_run = <<>>
    /\ first_run' = <<[S |-> S, commits |-> commits]>>
    /\ k' \in 1..MaxK
    /\ amenity_types' \in SecondCallTypes
    /\ pc' = "ready"
    /\ S' = <<>>
    /\ n_allocated' = <<>>
    /\ candidate_capacities' = <<>>
    /\ all_candidates' = <<>>
    /\ best_pair' = <<>>
    /\ best_increase' = NegInf
    /\ iteration' = 0
    /\ commits' = <<>>
    /\ UNCHANGED <<recording, database, parallel,
                   graph_G, distance_matrix, L, residential_buildings, capacity_db,
                   M_enum, fast_mode_residential_sample, fast_mode_candidate_sample,
                   plain_weights, depth_weights, type_weight_db, breakpoints, scores,
                   graph, original_N, original_M, nearby_residentials,
                   walkscore_cache, current_S_cache, query>>

\* the optimizer is used without fast-mode sampling
ReuseInit ==
    /\ Init
    /\ fast_mode_residential_sample = 0
    /\ fast_mode_candidate_sample = 0

ReuseNext == Next \/ CallAgain

SpecReuse == ReuseInit /\ [][ReuseNext]_vars

-----------------------------------------------------------------------------
(* Claims *)

\* the capacity the run starts candidate j with
capacity_of(j) == initial_capacity(capacity_db[j])

\* the number of categories that have candidate j allocated
hosted(j) == Cardinality({c \in DOMAIN S : j \in S[c]})

\* C1 - budget invariant: in every state of optimize, every category c has
\* |S[c]| <= k and n_allocated[c] <= k.
C1_Budget ==
    \A c \in DOMAIN S : Cardinality(S[c]) <= k /\ n_allocated[c] <= k

\* C1 witness: the loop head is reached with one category at its budget k while
\* another is short of it and a candidate still has capacity, so that only the
\* budget test keeps the full category from being allocated again.
C1_Witness ==
    /\ pc = "loop"
    /\ \E c \in DOMAIN S : n_allocated[c] = k /\ Cardinality(S[c]) = k
    /\ \E c \in DOMAIN S : n_allocated[c] < k
    /\ \E j \in DOMAIN candidate_capacities : candidate_capacities[j] > 0

\* C2 - capacity invariant: in every state of optimize, every candidate j hosts
\* at most capacity_j categories and its remaining capacity is never negative.
C2_Capacity ==
    \A j \in DOMAIN candidate_capacities :
        /\ hosted(j) <= capacity_of(j)
        /\ candidate_capacities[j] >= 0

\* C2 witness: a finished run in which a candidate of capacity 1 is used up
\* while some category is still short of its budget.
C2_Witness ==
    /\ pc = "done"
    /\ \E j \in DOMAIN candidate_capacities :
          capacity_of(j) = 1 /\ candidate_capacities[j] = 0 /\ hosted(j) = 1
    /\ \E c \in DOMAIN S : n_allocated[c] < k

\* a (category, candidate) pair the next iteration may choose
eligible(c, j) == n_allocated[c] < k /\ candidate_capacities[j] > 0

\* the delta optimize computes for (c, j) in the current state
delta(c, j) == calculate_objective_increase(cache_for(S), S, c, j)

\* the position of category c in the categories list
type_index(c) == CHOOSE i \in DOMAIN amenity_types : amenity_types[i] = c

\* C3 - average monotonicity: every commit leaves the population-average
\* WalkScore at least as high as before, and the committed delta is >= 0.
C3_AverageMonotone ==
    [][pc = "commit" =>
          /\ RatGeq(calculate_objective(S'), calculate_objective(S))
          /\ best_increase[1] >= 0]_vars

\* C4 - score monotonicity: for allocation sets S <= S' (per category), the
\* WalkScore of a resident under S' is at least its WalkScore under S.
C4_ScoreMonotone ==
    (query.res # 0 /\ SubAllocation(query.prev_S, query.S))
        => query.score >= query.prev_score

\* C5 - locality of delta: adding one candidate j to one category leaves the
\* WalkScore of every resident outside nearby_residentials[j] unchanged.
C5_Locality ==
    (/\ query.res # 0
     /\ Cardinality(AddedPairs(query.prev_S, query.S)) = 1
     /\ \A p \in AddedPairs(query.prev_S, query.S) : query.res \notin nearby(p[2]))
        => query.score = query.prev_score

\* C6 - exactness of the incremental delta: for every eligible pair (c, j) the
\* delta from the cache and the neighbourhood index equals the difference of
\* the objective computed from scratch with and without j in S[c].  Stated for
\* the runs that use every resident and candidate (no fast-mode sampling).
C6_DeltaExact ==
    (/\ pc \in {"loop", "commit"}
     /\ fast_mode_residential_sample = 0
     /\ fast_mode_candidate_sample = 0) =>
        \A c \in DOMAIN S, j \in DOMAIN candidate_capacities :
            eligible(c, j) =>
                RatEq(delta(c, j),
                      RatSub(calculate_objective(with_allocation(S, c, j)),
                             calculate_objective(S)))

\* C7 - cache correctness: after every commit the cached score of every
\* resident node of graph.N equals compute_walkscore under the current S.
C7_CacheCorrect ==
    (pc = "loop" /\ iteration > 0) =>
        \A u \in graph_N : walkscore_cache[u] = compute_walkscore(u, S)

\* C8 - best-improvement selection: the pair about to be committed is eligible
\* and its delta is at least the delta of every eligible pair in that state.
C8_BestImprovement ==
    pc = "commit" =>
        /\ eligible(best_pair[1], best_pair[2])
        /\ \A c \in DOMAIN S, j \in DOMAIN candidate_capacities :
              eligible(c, j) => RatGeq(best_increase, delta(c, j))

\* C8 witness: a commit is pending whose pair is not the first one evaluated
\* and strictly beats some other eligible pair.
C8_Witness ==
    /\ pc = "commit"
    /\ best_pair # Head(evaluation_pairs(amenity_types,
                            available_candidates(candidate_capacities), n_allocated, k))
    /\ \E c \in DOMAIN S, j \in DOMAIN candidate_capacities :
          eligible(c, j) /\ Greater(best_increase, delta(c, j))

\* C9 - tie-break: among the eligible pairs that share the maximum delta the
\* committed one has the lowest category index and then the lowest candidate id.
C9_TieBreak ==
    pc = "commit" =>
        \A c \in DOMAIN S, j \in DOMAIN candidate_capacities :
            (eligible(c, j) /\ RatEq(delta(c, j), best_increase)) =>
                \/ type_index(best_pair[1]) < type_index(c)
                \/ (c = best_pair[1] /\ best_pair[2] <= j)

\* C10 - determinism: a second run of optimize on the same inputs and
\* configuration returns the same S and the same sequence of commit records.
C10_Determinism ==
    (pc = "done" /\ first_run # <<>>) =>
        /\ first_run[1].S = S
        /\ first_run[1].commits = commits

\* the categories of the list that have a weight entry
defined_category(c) == c \in DOMAIN plain_weights \cup DOMAIN depth_weights

\* the capacity the candidates of the run start with, summed
total_capacity ==
    SetSum([j \in DOMAIN candidate_capacities |-> capacity_of(j)],
           DOMAIN candidate_capacities)

\* the loop's exit condition as the termination contract states it
every_category_satisfied == \A c \in DOMAIN n_allocated : n_allocated[c] = k
no_capacity_left ==
    \A j \in DOMAIN candidate_capacities : ~(candidate_capacities[j] > 0)

\* C11 - termination postcondition: for a budget k >= 1, once optimize has left
\* its main loop either every category has n_allocated = k or no candidate has
\* remaining capacity > 0, and the step after the loop returns the same S
\* normally (it does not end in the error state).
C11_Termination ==
    /\ []((pc \in {"finish", "done"} /\ k >= 1)
            => (every_category_satisfied \/ no_capacity_left))
    /\ [][pc = "finish" => (pc' = "done" /\ S' = S)]_vars

\* C11 witness: a run that has returned because the capacity ran out, after at
\* least one commit and with a category still short of its budget.
C11_Witness ==
    /\ pc = "done"
    /\ k >= 1
    /\ commits # <<>>
    /\ no_capacity_left
    /\ \E c \in DOMAIN n_allocated : n_allocated[c] < k

\* C12 - infeasibility is a success outcome: when the total capacity is
\* smaller than k times the number of categories the run never ends in the
\* error state and returns with as many commits as there is capacity, the
\* counters summing to the total capacity; with two candidates of capacity 1,
\* three categories and k = 1 that is two commits, two categories holding one
\* candidate each (distinct candidates) and the third holding none.
C12_Infeasible ==
    (/\ k >= 1
     /\ pc \in {"loop", "commit", "finish", "done"}
     /\ total_capacity < k * Len(amenity_types)) =>
        /\ pc = "done" =>
              /\ Len(commits) = total_capacity
              /\ SetSum(n_allocated, DOMAIN n_allocated) = total_capacity
        /\ (/\ pc = "done"
            /\ k = 1
            /\ Len(amenity_types) = 3
            /\ Cardinality(DOMAIN candidate_capacities) = 2
            /\ \A j \in DOMAIN candidate_capacities : capacity_of(j) = 1) =>
              \E c1, c2, c3 \in DOMAIN S :
                  /\ Cardinality({c1, c2, c3}) = 3
                  /\ Cardinality(S[c1]) = 1
                  /\ Cardinality(S[c2]) = 1
                  /\ S[c1] # S[c2]
                  /\ S[c3] = {}

\* C12 witness: the scenario itself has returned: two candidates of capacity 1,
\* three categories, k = 1, two commits.
C12_Witness ==
    /\ pc = "done"
    /\ k = 1
    /\ Len(amenity_types) = 3
    /\ Cardinality(DOMAIN candidate_capacities) = 2
    /\ \A j \in DOMAIN candidate_capacities : capacity_of(j) = 1
    /\ Len(commits) = 2

\* C13 - configuration errors are rejected before any work: with k <= 0 or an
\* empty category list optimize never gets past its entry: the neighbourhood
\* index is not built, nothing is evaluated and no allocation is returned.
C13_ConfigRejected ==
    (k <= 0 \/ amenity_types = <<>>) =>
        pc \notin {"prepared", "loop", "commit", "finish", "done"}

\* C14 - an empty candidate set is fatal: with graph.M empty the preparation
\* step ends in the error state, and no pair is evaluated, nothing is
\* committed and no allocation is returned.
C14_EmptyCandidatesFatal ==
    /\ [](graph_M = {} =>
            /\ pc \in {"ready", "sampled", "error"}
            /\ best_pair = <<>>
            /\ commits = <<>>
            /\ S = <<>>)
    /\ [][(pc = "sampled" /\ graph_M = {}) => pc' = "error"]_vars

\* C14 witness: the error state reached with an empty candidate set.
C14_Witness == pc = "error" /\ graph_M = {} /\ nearby_residentials = <<>>

\* C15 - an undefined category is fatal: when the category list (with a
\* budget k >= 1) names a category without a weight entry the run does not
\* return an allocation, and no commit is ever made for such a category.
C15_UndefinedCategoryFatal ==
    (/\ k >= 1
     /\ \E i \in DOMAIN amenity_types : ~defined_category(amenity_types[i])) =>
        /\ pc # "done"
        /\ \A i \in DOMAIN commits : defined_category(commits[i].amenity_type)

\* the length of the shortest path from u to v, D_infinity when there is none
\* or when it is not shorter than D_infinity
capped_path_length(u, v) ==
    LET distances == single_source_dijkstra_path_length(graph_G, u)
    IN  IF v \in DOMAIN distances /\ distances[v] < D_infinity
        THEN distances[v] ELSE D_infinity

\* C16 - distance sentinel: once compute_all_distances has built the matrix,
\* get_distance returns D_infinity for every pair of nodes without a path
\* shorter than D_infinity, and never returns more than D_infinity.
C16_Sentinel ==
    \A u \in graph_G.nodes, v \in graph_G.nodes :
        /\ get_distance(u, v) <= D_infinity
        /\ capped_path_length(u, v) = D_infinity => get_distance(u, v) = D_infinity

\* C17 - symmetry of the fabric: for every pair (u, v) stored in the matrix,
\* get_distance(v, u) = get_distance(u, v).
C17_Symmetry ==
    \A p \in DOMAIN distance_matrix :
        get_distance(p[2], p[1]) = get_distance(p[1], p[2])

\* the distances from resident r to the locations of category c under A
category_distances(r, c, A) == {get_distance(r, a) : a \in all_locations(c, A)}

\* the p-th smallest distance (with multiplicity) from r to the locations locs,
\* D_infinity when there are fewer than p locations
rank_distance(r, locs, p) ==
    IF p > Cardinality(locs) THEN D_infinity
    ELSE CHOOSE x \in {get_distance(r, a) : a \in locs} :
            /\ Cardinality({a \in locs : get_distance(r, a) < x}) < p
            /\ p <= Cardinality({a \in locs : get_distance(r, a) <= x})

\* C18 - plain contribution without normalization: every plain category adds
\* its weight times the minimum get_distance to its existing and allocated
\* locations (its weight times D_infinity when it has none), and the weighted
\* distance is the plain sum of all contributions, not divided by anything.
C18_PlainContribution ==
    "plain" \in DOMAIN query =>
        /\ \A c \in DOMAIN plain_weights :
              query.plain[c] =
                  plain_weights[c] * WeightDen
                  * (IF all_locations(c, query.S) = {} THEN D_infinity
                     ELSE MinOf(category_distances(query.res, c, query.S)))
        /\ query.weighted = SetSum(query.plain, DOMAIN query.plain)
                            + SetSum(query.depth, DOMAIN query.depth)

\* C19 - depth contribution: every depth category adds its category weight
\* times the sum over the ranks p = 1..r of the rank weight times the p-th
\* smallest distance to its existing and allocated locations, a rank beyond
\* the number of locations counting D_infinity.
C19_DepthContribution ==
    "depth" \in DOMAIN query =>
        \A c \in DOMAIN depth_weights :
            query.depth[c] =
                depth_category_weight(c)
                * SetSum([p \in DOMAIN depth_weights[c] |->
                             depth_weights[c][p]
                             * rank_distance(query.res, all_locations(c, query.S), p)],
                         DOMAIN depth_weights[c])

\* C19 witness: the restaurants of resident 1 are at 300, 900 and 1500 m and
\* the category adds 0.6 * (0.5*300 + 0.3*900 + 0.2*1500) = 432 m.
C19_Witness ==
    /\ "depth" \in DOMAIN query
    /\ query.res = 1
    /\ Cardinality(all_locations("restaurant", query.S)) = 3
    /\ category_distances(1, "restaurant", query.S) = {300, 900, 1500}
    /\ query.depth["restaurant"] = 432 * WeightDen * WeightDen

\* the index of the breakpoint the query was made at, 0 when it was made
\* strictly inside a segment
queried_breakpoint ==
    IF query.quarter = 0 THEN query.segment
    ELSE IF query.quarter = 4 THEN query.segment + 1
    ELSE IF breakpoints[query.segment] = breakpoints[query.segment + 1]
         THEN query.segment
    ELSE 0

\* the first index that carries the same breakpoint as index i
first_index(i) == CHOOSE j \in 1..i :
                     breakpoints[j] = breakpoints[i]
                     /\ \A h \in 1..(j - 1) : breakpoints[h] # breakpoints[i]

\* the query was made strictly between two adjacent breakpoints and the score
\* is the linear interpolation of their values
interpolates ==
    LET i == query.segment
    IN  4 * query.score
            = ScoreDen * (4 * scores[i] + (scores[i + 1] - scores[i]) * query.quarter)

\* C20 (as stated) - PWL correctness: for every non-decreasing breakpoint
\* sequence, repeated breakpoints included, the score at every breakpoint x_i
\* is y_i and the score strictly between adjacent breakpoints is the linear
\* interpolation of their values.
C20_PwlCorrect ==
    "quarter" \in DOMAIN query =>
        IF queried_breakpoint # 0
        THEN query.score = ScoreDen * scores[queried_breakpoint]
        ELSE interpolates

\* C20 (amended) - PWL correctness: the score at a breakpoint x_i is the value
\* y_j of the first index j that carries that breakpoint (j = i when the
\* breakpoint is not repeated), and the score strictly between adjacent
\* breakpoints is the linear interpolation of their values.
C20_PwlFirstIndex ==
    "quarter" \in DOMAIN query =>
        IF queried_breakpoint # 0
        THEN query.score = ScoreDen * scores[first_index(queried_breakpoint)]
        ELSE interpolates

\* C20 witness: the score was asked at a repeated breakpoint whose two values
\* differ, and at a point strictly inside a sloped segment of the same vector.
C20_Witness ==
    /\ "quarter" \in DOMAIN query
    /\ queried_breakpoint # 0
    /\ first_index(queried_breakpoint) # queried_breakpoint
    /\ scores[first_index(queried_breakpoint)] # scores[queried_breakpoint]
    /\ query.score = ScoreDen * scores[first_index(queried_breakpoint)]
    /\ \E i \in 1..3 : breakpoints[i] < breakpoints[i + 1] /\ scores[i] # scores[i + 1]

\* C21 - PWL clamping: for every configured breakpoint sequence the score of a
\* distance at or below the first breakpoint is the first value (also when the
\* first breakpoint is above 0), and the score of a distance at or above the
\* last breakpoint is the last value.
C21_PwlClamp ==
    "outer" \in DOMAIN query =>
        /\ query.outer <= breakpoints[1] => query.score = ScoreDen * scores[1]
        /\ query.outer >= breakpoints[Len(breakpoints)]
              => query.score = ScoreDen * scores[Len(scores)]

\* C29 - every commit adds a new amenity: in every state of a run from the
\* start of the loop to the return, n_allocated[c] = |S[c]| for every category
\* c, so no (category, candidate) pair is committed twice.
C29_CommitAddsNew ==
    pc \in {"loop", "commit", "finish", "done"} =>
        \A c \in DOMAIN S : n_allocated[c] = Cardinality(S[c])

\* C30 - optimize leaves the node sets as it found them: on every exit, the
\* normal return and the error raised during preparation, graph.N and graph.M
\* equal their values from before the call.
C30_NodeSetsRestored ==
    pc \in {"done", "error"} => graph_N = original_N /\ graph_M = original_M

\* the number of resident buildings snapped to node u
buildings_on(u) == Cardinality({b \in residential_buildings : b[2] = u})

\* the node-weighted total of the score changes a pair (c, j) brings
weighted_change(c, j) ==
    SetSum([u \in affected_nodes(j) |->
               buildings_on(u)
                 * (compute_walkscore(u, with_allocation(S, c, j)) - cache_for(S)[u])],
           affected_nodes(j))

\* C22 - building-count denominator: the objective and every delta weight each
\* snapped node by the number of resident buildings snapped to it and divide
\* by the total number of resident buildings; with two buildings on node 1 and
\* one on node 2 the average is (2 * score(1) + score(2)) / 3.
C22_BuildingCount ==
    pc \in {"loop", "commit", "finish", "done"} =>
        /\ calculate_objective(S)
              = <<SetSum([u \in ResidentNodes |->
                             buildings_on(u) * compute_walkscore(u, S)],
                         ResidentNodes),
                  Cardinality(residential_buildings)>>
        /\ calculate_objective(S)
              = <<2 * compute_walkscore(1, S) + compute_walkscore(2, S), 3>>
        /\ pc = "loop" =>
              \A c \in DOMAIN S : \A j \in DOMAIN candidate_capacities :
                  eligible(c, j) /\ affected_nodes(j) # {} =>
                      delta(c, j) = <<weighted_change(c, j),
                                      Cardinality(residential_buildings)>>

\* C22 witness: the average is taken while the two nodes score differently
\* after a commit, and a pair still to evaluate changes the score of node 1.
C22_Witness ==
    /\ pc = "loop"
    /\ Len(commits) >= 1
    /\ compute_walkscore(1, S) # compute_walkscore(2, S)
    /\ \E c \in DOMAIN S : \E j \in DOMAIN candidate_capacities :
          /\ eligible(c, j)
          /\ 1 \in affected_nodes(j)
          /\ weighted_change(c, j) # 0

\* C28 - delta evaluation is read-only: in every iteration after the cache has
\* been built (after the first commit) the evaluation of the pairs leaves the
\* allocation, the counters, the remaining capacities, the neighbourhood index
\* and every cache entry unchanged; the cache is written only by the commit
\* step.
C28_DeltaReadOnly ==
    /\ [][(pc = "loop" /\ iteration > 0) =>
             UNCHANGED <<S, n_allocated, candidate_capacities,
                         nearby_residentials, walkscore_cache, current_S_cache>>]_vars
    /\ [][(iteration > 0 /\ walkscore_cache' # walkscore_cache) => pc = "commit"]_vars

\* C28 witness: after a commit the pairs were evaluated again and a pair with
\* a positive delta was found.
C28_Witness ==
    /\ pc = "commit"
    /\ iteration > 0
    /\ Greater(best_increase, <<0, 1>>)

\* C25 - termination: for k >= 1 a run of optimize that is not abandoned
\* eventually reaches its return, and the number of commits never exceeds the
\* minimum of k times the number of categories and the sum of the candidate
\* capacities, also when every delta is zero or negative.
C25_Terminates ==
    /\ <>(pc = "done")
    /\ [](Len(commits) <= Min2(k * Len(amenity_types), total_capacity))

\* C25 witness: a run with k >= 1 has returned after as many commits as the
\* capacity allows, every one of them with a delta of zero or less.
C25_Witness ==
    /\ pc = "done"
    /\ k >= 1
    /\ Len(commits) = total_capacity
    /\ Len(commits) >= 2
    /\ \A i \in 1..Len(commits) : ~Greater(commits[i].increase, <<0, 1>>)

\* C27 - cache initialization per call: in every call of optimize, a second
\* call on the same optimizer with another category list or k included, the
\* cache read by the first delta evaluation of the call holds, for every
\* resident node of graph.N, its score under the empty allocation.
C27_CachePerCall ==
    (pc = "commit" /\ iteration = 0) =>
        \A u \in graph_N :
            /\ u \in DOMAIN walkscore_cache
            /\ walkscore_cache[u]
                  = compute_walkscore(u, [a_type \in Range(amenity_types) |-> {}])

C23_FabricUntouched ==
    [][\A u \in FabricNodes : \A v \in FabricNodes :
          get_distance(u, v)' = get_distance(u, v)]_vars

\* C26 - parallel construction equals sequential construction: the chunks of
\* _compute_parallel are pairwise disjoint and together cover every
\* residential node, and once every chunk result has been merged, in whatever
\* order they completed and for every number of workers, distance_matrix is
\* the one _compute_sequential produces on the same graph.
C26_ParallelEqualsSequential ==
    parallel # <<>> =>
        /\ \A i \in DOMAIN parallel.chunks : \A j \in DOMAIN parallel.chunks :
              i # j => Range(parallel.chunks[i]) \cap Range(parallel.chunks[j]) = {}
        /\ UNION {Range(parallel.chunks[i]) : i \in DOMAIN parallel.chunks} = graph_N
        /\ parallel.futures = {} =>
              distance_matrix = compute_sequential(graph_G, graph_N, destinations)

\* C26 witness: a run split into three chunks has merged them all, on a
\* network where some resident reaches a destination and some does not.
C26_Witness ==
    /\ parallel # <<>>
    /\ Len(parallel.chunks) = 3
    /\ parallel.futures = {}
    /\ \E p \in DOMAIN distance_matrix : distance_matrix[p] \notin {0, D_infinity}
    /\ \E p \in DOMAIN distance_matrix : distance_matrix[p] = D_infinity

====
